---------------------------- MODULE Spec2Model ----------------------------
(***************************************************************************)
(* Model of the fantasy-cycling auction tool: the line-oriented front-end  *)
(* (src/auction.py) and the widget-based front-end                         *)
(* (src/auction_tui_backup.py).                                            *)
(*                                                                         *)
(* Text is a sequence of one-character strings.  A Python value is a       *)
(* record [kind, n, s]: None, an int (n) or a str (s).                     *)
(***************************************************************************)
EXTENDS Integers, Sequences, FiniteSets, TLC

(***************************************************************************)
(* Python values                                                           *)
(***************************************************************************)
None == [kind |-> "none", n |-> 0, s |-> <<>>]

PyInt(i) == [kind |-> "int", n |-> i, s |-> <<>>]

PyStr(t) == [kind |-> "str", n |-> 0, s |-> t]

\* Python truthiness: None, 0 and '' are false.
Truthy(v) ==
    \/ v.kind = "int" /\ v.n # 0
    \/ v.kind = "str" /\ v.s # <<>>

(***************************************************************************)
(* str methods                                                             *)
(***************************************************************************)
Whitespace == {" ", "\t", "\n", "\r"}

RECURSIVE lstrip(_)
lstrip(t) ==
    IF t # <<>> /\ Head(t) \in Whitespace THEN lstrip(Tail(t)) ELSE t

RECURSIVE rstrip(_)
rstrip(t) ==
    IF t # <<>> /\ t[Len(t)] \in Whitespace
    THEN rstrip(SubSeq(t, 1, Len(t) - 1))
    ELSE t

strip(t) == rstrip(lstrip(t))

UpperCase == <<"A", "B", "C", "D", "E", "F", "G", "H", "I", "J", "K", "L", "M",
               "N", "O", "P", "Q", "R", "S", "T", "U", "V", "W", "X", "Y", "Z">>

LowerCase == <<"a", "b", "c", "d", "e", "f", "g", "h", "i", "j", "k", "l", "m",
               "n", "o", "p", "q", "r", "s", "t", "u", "v", "w", "x", "y", "z">>

lowerChar(c) ==
    IF \E i \in DOMAIN UpperCase : UpperCase[i] = c
    THEN LowerCase[CHOOSE i \in DOMAIN UpperCase : UpperCase[i] = c]
    ELSE c

lower(t) == [i \in DOMAIN t |-> lowerChar(t[i])]

Digits == <<"0", "1", "2", "3", "4", "5", "6", "7", "8", "9">>

IsDigit(c) == \E i \in DOMAIN Digits : Digits[i] = c

DigitValue(c) == (CHOOSE i \in DOMAIN Digits : Digits[i] = c) - 1

\* The body of an integer literal accepted by int(): digits, with single
\* underscores allowed between digits.
IsDigitRun(t) ==
    /\ t # <<>>
    /\ IsDigit(t[1])
    /\ IsDigit(t[Len(t)])
    /\ \A i \in DOMAIN t : IsDigit(t[i]) \/ t[i] = "_"
    /\ \A i \in 1..(Len(t) - 1) : ~(t[i] = "_" /\ t[i + 1] = "_")

RECURSIVE DigitRunValue(_, _)
DigitRunValue(t, acc) ==
    IF t = <<>> THEN acc
    ELSE IF Head(t) = "_" THEN DigitRunValue(Tail(t), acc)
    ELSE DigitRunValue(Tail(t), 10 * acc + DigitValue(Head(t)))

\* int(text) succeeds: optional surrounding whitespace, optional sign.
IntParses(text) ==
    LET t == strip(text)
    IN  /\ t # <<>>
        /\ IF Head(t) \in {"+", "-"} THEN IsDigitRun(Tail(t)) ELSE IsDigitRun(t)

IntOf(text) ==
    LET t == strip(text)
    IN  IF Head(t) = "-" THEN 0 - DigitRunValue(Tail(t), 0)
        ELSE IF Head(t) = "+" THEN DigitRunValue(Tail(t), 0)
        ELSE DigitRunValue(t, 0)

RECURSIVE NatToText(_)
NatToText(i) ==
    IF i < 10 THEN <<Digits[i + 1]>>
    ELSE Append(NatToText(i \div 10), Digits[(i % 10) + 1])

\* str(v) as csv.writer renders a field; None is rendered as ''.
PyText(v) ==
    CASE v.kind = "none" -> <<>>
      [] v.kind = "str" -> v.s
      [] v.kind = "int" ->
            IF v.n < 0 THEN <<"-">> \o NatToText(0 - v.n) ELSE NatToText(v.n)

(***************************************************************************)
(* csv.writer / csv.reader, default ("excel") dialect                      *)
(***************************************************************************)
\* QUOTE_MINIMAL: a field is quoted when it holds the delimiter, the quote
\* character or a character of the line terminator.
NeedsQuote(t) == \E i \in DOMAIN t : t[i] \in {",", "\"", "\r", "\n"}

RECURSIVE DoubleQuotes(_)
DoubleQuotes(t) ==
    IF t = <<>> THEN <<>>
    ELSE IF Head(t) = "\"" THEN <<"\"", "\"">> \o DoubleQuotes(Tail(t))
    ELSE <<Head(t)>> \o DoubleQuotes(Tail(t))

CsvField(t) ==
    IF NeedsQuote(t) THEN <<"\"">> \o DoubleQuotes(t) \o <<"\"">> ELSE t

RECURSIVE CsvJoin(_)
CsvJoin(fields) ==
    IF Len(fields) = 1 THEN CsvField(fields[1])
    ELSE CsvField(fields[1]) \o <<",">> \o CsvJoin(Tail(fields))

\* writer.writerow(fields): the joined fields and the terminator "\r\n".
\* A row of one empty field is written as "".
writerow(fields) ==
    (IF Len(fields) = 1 /\ fields[1] = <<>> THEN <<"\"", "\"">> ELSE CsvJoin(fields))
        \o <<"\r", "\n">>

\* open(path, 'r') with the default newline=None: "\r\n" and "\r" are read
\* as "\n". A "\n" that follows a "\r" is dropped, every "\r" becomes "\n".
UniversalNewlines(t) ==
    LET marked == [i \in DOMAIN t |-> [c |-> t[i], after_cr |-> i > 1 /\ t[i - 1] = "\r"]]
        Kept(m) == ~(m.c = "\n" /\ m.after_cr)
        kept == SelectSeq(marked, Kept)
    IN  [i \in DOMAIN kept |-> IF kept[i].c = "\r" THEN "\n" ELSE kept[i].c]

\* csv.reader: one step of the parser's state machine on the character c.
\* p.rows are the finished records, p.row the finished fields of the open
\* record, p.fld the open field, p.pos the number of characters read, and
\* p.st is "start_record", "start_field", "in_field", "in_quoted" or
\* "quote_in_quoted".
CsvParse(p, c) ==
    LET q == [p EXCEPT !.pos = @ + 1]
    IN  CASE p.st = "in_quoted" ->
                IF c = "\"" THEN [q EXCEPT !.st = "quote_in_quoted"]
                ELSE [q EXCEPT !.fld = Append(@, c)]
          [] p.st = "quote_in_quoted" /\ c = "\"" ->
                [q EXCEPT !.fld = Append(@, c), !.st = "in_quoted"]
          [] p.st = "start_record" /\ c = "\n" ->
                [q EXCEPT !.rows = Append(@, <<>>), !.row = <<>>, !.fld = <<>>]
          [] p.st # "start_record" /\ c = "\n" ->
                [q EXCEPT !.rows = Append(@, Append(p.row, p.fld)),
                          !.row = <<>>, !.fld = <<>>, !.st = "start_record"]
          [] p.st \in {"start_record", "start_field"} /\ c = "\"" ->
                [q EXCEPT !.st = "in_quoted"]
          [] OTHER ->
                IF c = ","
                THEN [q EXCEPT !.row = Append(@, p.fld), !.fld = <<>>, !.st = "start_field"]
                ELSE [q EXCEPT !.fld = Append(@, c), !.st = "in_field"]

\* The parser fed the next n characters of t, in order. The run is split in
\* halves, first half first, so the evaluation nests no deeper than the
\* number of halvings.
RECURSIVE CsvFeed(_, _, _)
CsvFeed(t, n, p) ==
    IF n = 0 \/ p.pos >= Len(t) THEN p
    ELSE IF n = 1 THEN CsvParse(p, t[p.pos + 1])
    ELSE CsvFeed(t, n - (n \div 2), CsvFeed(t, n \div 2, p))

\* list(csv.reader(f)) for a file opened in text mode; a record still open
\* at the end of the file is returned as the last row.
reader(text) ==
    LET t == UniversalNewlines(text)
        p == CsvFeed(t, Len(t),
                     [rows |-> <<>>, row |-> <<>>, fld |-> <<>>,
                      st |-> "start_record", pos |-> 0])
    IN  IF p.st = "start_record" THEN p.rows ELSE Append(p.rows, Append(p.row, p.fld))

(***************************************************************************)
(* Text literals of the program                                            *)
(***************************************************************************)
Corridore == <<"C", "o", "r", "r", "i", "d", "o", "r", "e">>

Squadra == <<"S", "q", "u", "a", "d", "r", "a">>

Prezzo == <<"P", "r", "e", "z", "z", "o">>

Header == <<Corridore, Squadra, Prezzo>>

SkipWords == {<<"s", "a", "l", "t", "a">>, <<"s", "k", "i", "p">>}

DotXlsx == <<".", "x", "l", "s", "x">>

DotXls == <<".", "x", "l", "s">>

DotCsv == <<".", "c", "s", "v">>

AuctionResults == <<"_", "a", "u", "c", "t", "i", "o", "n", "_", "r", "e", "s", "u", "l", "t", "s">>

(***************************************************************************)
(* os.path                                                                 *)
(***************************************************************************)
endswith(t, suf) ==
    /\ Len(t) >= Len(suf)
    /\ SubSeq(t, Len(t) - Len(suf) + 1, Len(t)) = suf

\* Index of the last occurrence of c in t, 0 when there is none.
LastIndexOf(t, c) ==
    IF \E i \in DOMAIN t : t[i] = c
    THEN CHOOSE i \in DOMAIN t : t[i] = c /\ \A j \in (i + 1)..Len(t) : t[j] # c
    ELSE 0

basename(p) == SubSeq(p, LastIndexOf(p, "/") + 1, Len(p))

\* os.path.splitext(p)[0]: the extension starts at the last dot of the last
\* component, unless only dots precede it there.
splitext0(p) ==
    LET sep == LastIndexOf(p, "/")
        dot == LastIndexOf(p, ".")
    IN  IF dot > sep /\ \E i \in (sep + 1)..(dot - 1) : p[i] # "."
        THEN SubSeq(p, 1, dot - 1)
        ELSE p

exists(fs, p) == p \in DOMAIN fs

\* A file of the file system: its text, or the rows of its active worksheet.
TextFile(t) == [text |-> t, sheet |-> <<>>]

SheetFile(rows) == [text |-> <<>>, sheet |-> rows]

write(fs, p, t) == [q \in (DOMAIN fs) \cup {p} |-> IF q = p THEN TextFile(t) ELSE fs[q]]

(***************************************************************************)
(* Entity loaders                                                          *)
(***************************************************************************)
\* str(cell).strip() if cell else ''
CellText(cell) == IF Truthy(cell) THEN strip(PyText(cell)) ELSE <<>>

\* f"{firstname} {surname}".strip()
FullName(row) == strip(CellText(row.C) \o <<" ">> \o CellText(row.B))

\* auction.py: the rows of the sheet from row 2 on; a rider is its name.
RECURSIVE ExcelRiders(_)
ExcelRiders(rows) ==
    IF rows = <<>> THEN <<>>
    ELSE LET row == Head(rows)
         IN  IF (CellText(row.B) # <<>> \/ CellText(row.C) # <<>>) /\ FullName(row) # <<>>
             THEN <<FullName(row)>> \o ExcelRiders(Tail(rows))
             ELSE ExcelRiders(Tail(rows))

read_riders_from_excel(file) ==
    IF file.sheet = <<>> THEN <<>> ELSE ExcelRiders(Tail(file.sheet))

RECURSIVE CsvRiders(_)
CsvRiders(rows) ==
    IF rows = <<>> THEN <<>>
    ELSE LET row == Head(rows)
         IN  IF row # <<>> /\ strip(row[1]) # <<>>
             THEN <<strip(row[1])>> \o CsvRiders(Tail(rows))
             ELSE CsvRiders(Tail(rows))

read_riders_from_csv(file) == CsvRiders(reader(file.text))

\* The result of read_riders: the riders, or the ValueError raised.
Loaded(rs) == [ok |-> TRUE, riders |-> rs]

ValueError == [ok |-> FALSE, riders |-> <<>>]

read_riders(filepath, file) ==
    IF endswith(filepath, DotXlsx) \/ endswith(filepath, DotXls)
    THEN Loaded(read_riders_from_excel(file))
    ELSE IF endswith(filepath, DotCsv)
    THEN Loaded(read_riders_from_csv(file))
    ELSE ValueError

\* auction_tui_backup.py: a rider is a dict {'name', 'value'}.
RECURSIVE TuiExcelRiders(_)
TuiExcelRiders(rows) ==
    IF rows = <<>> THEN <<>>
    ELSE LET row == Head(rows)
         IN  IF (CellText(row.B) # <<>> \/ CellText(row.C) # <<>>) /\ FullName(row) # <<>>
             THEN <<[name |-> FullName(row), value |-> row.G]>> \o TuiExcelRiders(Tail(rows))
             ELSE TuiExcelRiders(Tail(rows))

tui_read_riders_from_excel(file) ==
    IF file.sheet = <<>> THEN <<>> ELSE TuiExcelRiders(Tail(file.sheet))

RECURSIVE TuiCsvRiders(_)
TuiCsvRiders(rows) ==
    IF rows = <<>> THEN <<>>
    ELSE LET row == Head(rows)
         IN  IF row # <<>> /\ strip(row[1]) # <<>>
             THEN <<[name |-> strip(row[1]), value |-> None]>> \o TuiCsvRiders(Tail(rows))
             ELSE TuiCsvRiders(Tail(rows))

tui_read_riders_from_csv(file) == TuiCsvRiders(reader(file.text))

tui_read_riders(filepath, file) ==
    IF endswith(filepath, DotXlsx) \/ endswith(filepath, DotXls)
    THEN Loaded(tui_read_riders_from_excel(file))
    ELSE IF endswith(filepath, DotCsv)
    THEN Loaded(tui_read_riders_from_csv(file))
    ELSE ValueError

(***************************************************************************)
(* Assignment input and export                                             *)
(***************************************************************************)
Unassigned == [team |-> None, price |-> None]

\* int(price_str) if price_str else 0; the raw text on ValueError.
ParsePrice(price_str) ==
    IF price_str = <<>> THEN PyInt(0)
    ELSE IF IntParses(price_str) THEN PyInt(IntOf(price_str))
    ELSE PyStr(price_str)

\* auction.py: the two prompts; the price is asked only for a kept team.
get_team_and_price(team_in, price_in) ==
    LET team == strip(team_in)
    IN  IF team = <<>> \/ lower(team) \in SkipWords
        THEN Unassigned
        ELSE [team |-> PyStr(team), price |-> ParsePrice(strip(price_in))]

\* A variant that writes an absent value as the text None.
OrNoneMarker(v) ==
    IF v = None THEN <<"N", "o", "n", "e">> ELSE IF Truthy(v) THEN PyText(v) ELSE <<>>

\* value if value else ''
OrEmpty(v) == IF Truthy(v) THEN PyText(v) ELSE <<>>

RECURSIVE ResultRows(_, _, _)
ResultRows(results, riders, i) ==
    IF i > Len(riders) THEN <<>>
    ELSE writerow(<<riders[i], OrEmpty(results[i].team), OrEmpty(results[i].price)>>)
            \o ResultRows(results, riders, i + 1)

\* A variant that writes no header record.
save_results_no_header(fs, results, riders, output_file) ==
    write(fs, output_file, ResultRows(results, riders, 1))

\* auction.py: the file system after save_results.
save_results(fs, results, riders, output_file) ==
    write(fs, output_file, writerow(Header) \o ResultRows(results, riders, 1))

RECURSIVE TuiResultRows(_, _, _)
TuiResultRows(results, riders, i) ==
    IF i > Len(riders) THEN <<>>
    ELSE writerow(<<riders[i].name, OrEmpty(results[i].team), OrEmpty(results[i].price)>>)
            \o TuiResultRows(results, riders, i + 1)

\* auction_tui_backup.py: the file system after save_results.
tui_save_results(fs, results, riders, output_file) ==
    write(fs, output_file, writerow(Header) \o TuiResultRows(results, riders, 1))

\* auction.py: f"{base_name}_auction_results.csv"
OutputFile(base_name) == base_name \o AuctionResults \o DotCsv

\* f"{base_name}_auction_results_{counter}.csv"
NumberedOutputFile(base_name, counter) ==
    base_name \o AuctionResults \o <<"_">> \o NatToText(counter) \o DotCsv

RECURSIVE UniqueFrom(_, _, _)
UniqueFrom(fs, base_name, counter) ==
    IF ~exists(fs, NumberedOutputFile(base_name, counter))
    THEN NumberedOutputFile(base_name, counter)
    ELSE UniqueFrom(fs, base_name, counter + 1)

get_unique_output_file(fs, base_name) ==
    IF ~exists(fs, OutputFile(base_name))
    THEN OutputFile(base_name)
    ELSE UniqueFrom(fs, base_name, 1)

\* A variant that starts every price at 0.
InitialResultsZeroPrice(riders) ==
    [i \in 1..Len(riders) |-> [team |-> None, price |-> PyInt(0)]]

\* [{'team': None, 'price': None} for _ in riders]
InitialResults(riders) == [i \in 1..Len(riders) |-> Unassigned]

(***************************************************************************)
(* Cursor arithmetic (indices are 0-based, as in the source)               *)
(***************************************************************************)
\* auction.py, key UP
previous_index(current, total) == IF current > 0 THEN current - 1 ELSE current

\* A variant that wraps round to the first rider.
next_index_wrap(current, total) == (current + 1) % total

\* auction.py, key DOWN
next_index(current, total) == IF current < total - 1 THEN current + 1 ELSE current

\* auction_tui_backup.py
tui_previous_index(current, total) == IF current > 0 THEN current - 1 ELSE current

tui_next_index(current, total) == IF current < total - 1 THEN current + 1 ELSE current

\* AssignmentModal._confirm: the value the modal is dismissed with.
Dismissed(team, price) == [some |-> TRUE, team |-> team, price |-> price]

DismissedNone == [some |-> FALSE, team |-> <<>>, price |-> <<>>]

modal_confirm(team_in, price_in) ==
    LET team == strip(team_in)
        price == strip(price_in)
    IN  IF team # <<>> THEN Dismissed(team, price) ELSE DismissedNone

(***************************************************************************)
(* The runs considered: the command line, the files present, the keys and  *)
(* the texts the operator types.                                           *)
(***************************************************************************)
\* The largest number of riders in a generated input file.
MaxRiders == 3

\* The largest number of result files already present for the scenario input.
MaxExisting == 2

TadejPogacar == <<"T", "a", "d", "e", "j", " ", "P", "O", "G", "A", "C", "A", "R">>

JonasVingegaard == <<"J", "o", "n", "a", "s", " ", "V", "I", "N", "G", "E", "G", "A", "A", "R", "D">>

TeamA == <<"T", "e", "a", "m", "A">>

\* What the operator types at the team prompt.
TeamInputs == {<<>>, <<" ", "T", "e", "a", "m", "A", " ">>, <<"S", "K", "I", "P">>, <<"s", "a", "l", "t", "a">>}

\* What the operator types at the price prompt.
PriceInputs == {<<>>, <<"5", "0", "0">>, <<" ", "x", "7", " ">>}

InputCsv == <<"i", "n", "p", "u", "t", ".", "c", "s", "v">>

SheetXlsx == <<"d", "i", "r", "/", "s", "h", "e", "e", "t", ".", "x", "l", "s", "x">>

OldXls == <<"o", "l", "d", ".", "x", "l", "s">>

NotesTxt == <<"n", "o", "t", "e", "s", ".", "t", "x", "t">>

GoneCsv == <<"g", "o", "n", "e", ".", "c", "s", "v">>

GeneratedCsv(k) == <<"r", Digits[k + 1]>> \o DotCsv

\* Rider i of a generated file; the first name holds a comma.
GeneratedName(i) == IF i = 1 THEN <<"n", ",", "1">> ELSE <<"n", Digits[i + 1]>>

\* One record per rider, the name padded with blanks and followed by a second
\* field, then an empty line and a record whose first field is blank.
RECURSIVE GeneratedLines(_, _)
GeneratedLines(i, k) ==
    IF i > k THEN <<"\n", " ", ",", "y", "\n">>
    ELSE <<" ">> \o CsvField(GeneratedName(i)) \o <<" ", ",", "x", "\n">>
            \o GeneratedLines(i + 1, k)

ScenarioText == TadejPogacar \o <<"\n">> \o JonasVingegaard \o <<"\n">>

HeaderRow == [B |-> PyStr(<<"C", "o", "g", "n", "o", "m", "e">>), C |-> PyStr(<<"N", "o", "m", "e">>), G |-> PyStr(<<"V", "a", "l", "o", "r", "e">>)]

\* A worksheet: the header, a rider with a value, a row with both name cells
\* empty, and a rider with a surname only.
ScenarioSheet ==
    << HeaderRow,
       [B |-> PyStr(<<"P", "O", "G", "A", "C", "A", "R">>), C |-> PyStr(<<" ", "T", "a", "d", "e", "j">>), G |-> PyInt(500)],
       [B |-> None, C |-> None, G |-> PyInt(3)],
       [B |-> PyStr(<<"R", "O", "G", "L", "I", "C">>), C |-> None, G |-> None] >>

OldText == <<"o", "l", "d">>

\* The input files that exist.
InputFiles ==
    [p \in {InputCsv, SheetXlsx, OldXls, NotesTxt} \cup {GeneratedCsv(k) : k \in 0..MaxRiders} |->
        IF p = InputCsv THEN TextFile(ScenarioText)
        ELSE IF p = SheetXlsx THEN SheetFile(ScenarioSheet)
        ELSE IF p = OldXls THEN SheetFile(<<HeaderRow>>)
        ELSE IF p = NotesTxt THEN TextFile(ScenarioText)
        ELSE TextFile(GeneratedLines(1, CHOOSE k \in 0..MaxRiders : p = GeneratedCsv(k)))]

\* The result file names already taken: the first j candidates for a base name.
Candidate(base_name, k) ==
    IF k = 0 THEN OutputFile(base_name) ELSE NumberedOutputFile(base_name, k)

ExistingResults(base_name, j) ==
    [p \in {Candidate(base_name, k) : k \in 0..(j - 1)} |-> TextFile(OldText)]

\* The file system of a run: the input file (when it exists) and j old result
\* files.
FileSystem(path, j) ==
    LET old == ExistingResults(splitext0(basename(path)), j)
    IN  [p \in (DOMAIN old) \cup ({path} \cap DOMAIN InputFiles) |->
            IF p \in DOMAIN old THEN old[p] ELSE InputFiles[p]]

\* The command lines: no argument, or one path.
CommandLines == {<<>>} \cup {<<p>> : p \in (DOMAIN InputFiles) \cup {GoneCsv}}

VARIABLES
    fe,             \* the front-end run: "cli" (auction.py) or "tui"
    argv,           \* sys.argv[1:]
    files,          \* the file system: path -> file
    pc,             \* "main", "loop", "modal", "confirm", "ended", "failed"
    riders,         \* the riders loaded
    total,          \* len(riders)
    results,        \* the assignment table
    current_index,  \* the cursor, 0-based
    output_file,    \* the path save_results writes
    exit_status,    \* the process's exit status, -1 while it runs
    saves,          \* the number of calls of save_results
    last            \* the last action taken, with its inputs

vars == <<fe, argv, files, pc, riders, total, results, current_index,
          output_file, exit_status, saves, last>>

NoAction == [op |-> "none", idx |-> 0, team |-> <<>>, price |-> <<>>, had |-> FALSE]

Did(op, team_in, price_in) ==
    [op |-> op, idx |-> current_index, team |-> team_in, price |-> price_in,
     had |-> Truthy(results[current_index + 1].team)]

Init ==
    /\ fe \in {"cli", "tui"}
    /\ argv \in CommandLines
    /\ \E j \in 0..MaxExisting :
        /\ j > 0 => argv = <<InputCsv>>
        /\ files = IF argv = <<>> THEN FileSystem(<<>>, 0) ELSE FileSystem(argv[1], j)
    /\ pc = "main"
    /\ riders = <<>>
    /\ total = 0
    /\ results = <<>>
    /\ current_index = 0
    /\ output_file = <<>>
    /\ exit_status = -1
    /\ saves = 0
    /\ last = NoAction


(***************************************************************************)
(* auction.py                                                              *)
(***************************************************************************)
Fail ==
    /\ pc' = "failed"
    /\ exit_status' = 1
    /\ UNCHANGED <<riders, total, results, current_index, output_file>>

\* A variant without the check for an empty rider list.
StartupFailsOnErrorOnly(loaded) == ~loaded.ok

\* read_riders raised, or total == 0: the process exits before the loop.
StartupFails(loaded) == ~loaded.ok \/ Len(loaded.riders) = 0

\* main(), up to the first pass of the loop.
cli_main ==
    /\ fe = "cli"
    /\ pc = "main"
    /\ UNCHANGED <<fe, argv, files, saves, last>>
    /\ IF Len(argv) < 1 THEN Fail
       ELSE IF ~exists(files, argv[1]) THEN Fail
       ELSE LET input_file == argv[1]
                base_name == splitext0(basename(input_file))
                loaded == read_riders(input_file, files[input_file])
            IN  IF StartupFails(loaded)
                THEN /\ pc' = "failed"
                     /\ exit_status' = 1
                     /\ output_file' = OutputFile(base_name)
                     /\ riders' = loaded.riders
                     /\ total' = IF loaded.ok THEN Len(loaded.riders) ELSE total
                     /\ UNCHANGED <<results, current_index>>
                ELSE /\ pc' = "loop"
                     /\ output_file' = OutputFile(base_name)
                     /\ riders' = loaded.riders
                     /\ total' = Len(loaded.riders)
                     /\ results' = InitialResults(loaded.riders)
                     /\ current_index' = 0
                     /\ UNCHANGED exit_status

\* A variant that saves and goes round the loop again.
cli_save_and_continue ==
    /\ files' = save_results(files, results, riders, output_file)
    /\ saves' = saves + 1
    /\ pc' = "loop"
    /\ exit_status' = exit_status

\* The break out of the loop: save_results, the summary, exit.
cli_save_and_exit ==
    /\ files' = save_results(files, results, riders, output_file)
    /\ saves' = saves + 1
    /\ pc' = "ended"
    /\ exit_status' = 0

KeyUp ==
    /\ fe = "cli"
    /\ pc = "loop"
    /\ current_index' = previous_index(current_index, total)
    /\ last' = Did("MoveUp", <<>>, <<>>)
    /\ UNCHANGED <<fe, argv, files, pc, riders, total, results, output_file, exit_status, saves>>

KeyDown ==
    /\ fe = "cli"
    /\ pc = "loop"
    /\ current_index' = next_index(current_index, total)
    /\ last' = Did("MoveDown", <<>>, <<>>)
    /\ UNCHANGED <<fe, argv, files, pc, riders, total, results, output_file, exit_status, saves>>

\* Enter: the table after the prompts, the cursor after the auto-advance and
\* where the controller waits next.
cli_enter_results(team_in, price_in) ==
    [results EXCEPT ![current_index + 1] = get_team_and_price(team_in, price_in)]

cli_enter_index == IF current_index < total - 1 THEN current_index + 1 ELSE current_index

cli_enter_pc == IF current_index < total - 1 THEN "loop" ELSE "confirm"

\* Enter: the prompts, the store, the auto-advance or the end-of-list prompt.
KeyEnter ==
    /\ fe = "cli"
    /\ pc = "loop"
    /\ \E team_in \in TeamInputs, price_in \in PriceInputs :
        /\ get_team_and_price(team_in, price_in) = Unassigned => price_in = <<>>
        /\ results' = cli_enter_results(team_in, price_in)
        /\ last' = Did("Assign", team_in, price_in)
    /\ current_index' = cli_enter_index
    /\ pc' = cli_enter_pc
    /\ UNCHANGED <<fe, argv, files, riders, total, output_file, exit_status, saves>>

\* The answer 'q' to the end-of-list prompt.
AnswerQuit ==
    /\ fe = "cli"
    /\ pc = "confirm"
    /\ cli_save_and_exit
    /\ last' = Did("ConfirmQuit", <<>>, <<>>)
    /\ UNCHANGED <<fe, argv, riders, total, results, current_index, output_file>>

\* Any other answer to the end-of-list prompt.
AnswerContinue ==
    /\ fe = "cli"
    /\ pc = "confirm"
    /\ pc' = "loop"
    /\ last' = Did("ConfirmContinue", <<>>, <<>>)
    /\ UNCHANGED <<fe, argv, files, riders, total, results, current_index, output_file,
                   exit_status, saves>>

KeyQuit ==
    /\ fe = "cli"
    /\ pc = "loop"
    /\ cli_save_and_exit
    /\ last' = Did("Quit", <<>>, <<>>)
    /\ UNCHANGED <<fe, argv, riders, total, results, current_index, output_file>>

\* Any other key: the loop goes round.
KeyOther ==
    /\ fe = "cli"
    /\ pc = "loop"
    /\ last' = Did("Other", <<>>, <<>>)
    /\ UNCHANGED <<fe, argv, files, pc, riders, total, results, current_index, output_file,
                   exit_status, saves>>

(***************************************************************************)
(* auction_tui_backup.py                                                   *)
(***************************************************************************)
\* main(), AuctionApp.__init__ and on_mount.
tui_main ==
    /\ fe = "tui"
    /\ pc = "main"
    /\ UNCHANGED <<fe, argv, files, saves, last>>
    /\ IF Len(argv) < 1 THEN Fail
       ELSE IF ~exists(files, argv[1]) THEN Fail
       ELSE LET input_file == argv[1]
                base_name == splitext0(basename(input_file))
                loaded == tui_read_riders(input_file, files[input_file])
            IN  IF StartupFails(loaded)
                THEN /\ pc' = "failed"
                     /\ exit_status' = 1
                     /\ output_file' = get_unique_output_file(files, base_name)
                     /\ riders' = loaded.riders
                     /\ total' = IF loaded.ok THEN Len(loaded.riders) ELSE total
                     /\ UNCHANGED <<results, current_index>>
                ELSE /\ pc' = "loop"
                     /\ output_file' = get_unique_output_file(files, base_name)
                     /\ riders' = loaded.riders
                     /\ total' = Len(loaded.riders)
                     /\ results' = InitialResults(loaded.riders)
                     /\ current_index' = 0
                     /\ UNCHANGED exit_status

action_previous_rider ==
    /\ fe = "tui"
    /\ pc = "loop"
    /\ current_index' = tui_previous_index(current_index, total)
    /\ last' = Did("MoveUp", <<>>, <<>>)
    /\ UNCHANGED <<fe, argv, files, pc, riders, total, results, output_file, exit_status, saves>>

action_next_rider ==
    /\ fe = "tui"
    /\ pc = "loop"
    /\ current_index' = tui_next_index(current_index, total)
    /\ last' = Did("MoveDown", <<>>, <<>>)
    /\ UNCHANGED <<fe, argv, files, pc, riders, total, results, output_file, exit_status, saves>>

\* push_screen(AssignmentModal(...), self._handle_assignment)
action_assign ==
    /\ fe = "tui"
    /\ pc = "loop"
    /\ pc' = "modal"
    /\ last' = Did("OpenModal", <<>>, <<>>)
    /\ UNCHANGED <<fe, argv, files, riders, total, results, current_index, output_file,
                   exit_status, saves>>

\* A variant that stores at the index the cursor advances to.
handle_assignment_results_after_advance(result) ==
    IF result.some
    THEN [results EXCEPT ![(IF current_index < total - 1
                            THEN current_index + 1 ELSE current_index) + 1] =
                [team |-> PyStr(result.team), price |-> PyStr(result.price)]]
    ELSE results

\* _handle_assignment(result): the table and the cursor after the modal closes.
handle_assignment_results(result) ==
    IF result.some
    THEN [results EXCEPT ![current_index + 1] =
                [team |-> PyStr(result.team), price |-> PyStr(result.price)]]
    ELSE results

handle_assignment_index(result) ==
    IF result.some /\ current_index < total - 1 THEN current_index + 1 ELSE current_index

\* The modal confirmed (button, or Enter in the price field).
ModalConfirm ==
    /\ fe = "tui"
    /\ pc = "modal"
    /\ \E team_in \in TeamInputs, price_in \in PriceInputs :
        LET result == modal_confirm(team_in, price_in)
        IN  /\ results' = handle_assignment_results(result)
            /\ current_index' = handle_assignment_index(result)
            /\ last' = Did("Assign", team_in, price_in)
    /\ pc' = "loop"
    /\ UNCHANGED <<fe, argv, files, riders, total, output_file, exit_status, saves>>

\* The modal cancelled (button or escape): dismiss(None).
ModalCancel ==
    /\ fe = "tui"
    /\ pc = "modal"
    /\ results' = handle_assignment_results(DismissedNone)
    /\ current_index' = handle_assignment_index(DismissedNone)
    /\ last' = Did("Cancel", <<>>, <<>>)
    /\ pc' = "loop"
    /\ UNCHANGED <<fe, argv, files, riders, total, output_file, exit_status, saves>>

action_save_quit ==
    /\ fe = "tui"
    /\ pc = "loop"
    /\ files' = tui_save_results(files, results, riders, output_file)
    /\ saves' = saves + 1
    /\ pc' = "ended"
    /\ exit_status' = 0
    /\ last' = Did("Quit", <<>>, <<>>)
    /\ UNCHANGED <<fe, argv, riders, total, results, current_index, output_file>>

Next ==
    \/ cli_main
    \/ KeyUp
    \/ KeyDown
    \/ KeyEnter
    \/ AnswerQuit
    \/ AnswerContinue
    \/ KeyQuit
    \/ KeyOther
    \/ tui_main
    \/ action_previous_rider
    \/ action_next_rider
    \/ action_assign
    \/ ModalConfirm
    \/ ModalCancel
    \/ action_save_quit

Spec == Init /\ [][Next]_vars

(***************************************************************************)
(* Vocabulary of the properties                                            *)
(***************************************************************************)
\* The session is running: the loop, an open modal or the end-of-list prompt.
Active == pc \in {"loop", "modal", "confirm"}

Started == pc \in {"loop", "modal", "confirm", "ended"}

\* A label that asks for a skip: empty after trimming, or a skip word in any case.
IsSkipLabel(team_in) == strip(team_in) = <<>> \/ lower(strip(team_in)) \in SkipWords

\* The value a price input stands for: 0 when empty, the integer when it is
\* one, the trimmed text otherwise.
PriceValue(price_in) ==
    IF strip(price_in) = <<>> THEN PyInt(0)
    ELSE IF IntParses(price_in) THEN PyInt(IntOf(price_in))
    ELSE PyStr(strip(price_in))

Assigned(i) == results[i].team # None \/ results[i].price # None

LastIndex == total - 1

\* The name of rider i, in either front-end's representation.
RiderName(i) == IF fe = "cli" THEN riders[i] ELSE riders[i].name

(***************************************************************************)
(* C1                                                                      *)
(***************************************************************************)
\* C1: after an Assign with a label that is not a skip, the assignment at the
\* cursor the action started from holds the trimmed label and the value of the
\* price (the integer, 0 for an empty price, else the trimmed text), the
\* session is still active, and the cursor moved on by one unless it was at the
\* last index.
C1_AssignStoresLabelAndPrice ==
    (last.op = "Assign" /\ ~IsSkipLabel(last.team)) =>
        /\ Active
        /\ results[last.idx + 1] =
                [team |-> PyStr(strip(last.team)), price |-> PriceValue(last.price)]
        /\ current_index = IF last.idx < LastIndex THEN last.idx + 1 ELSE last.idx

\* The same, for the line-oriented front-end alone.
C1_CliAssignStoresLabelAndPrice == fe = "cli" => C1_AssignStoresLabelAndPrice

(***************************************************************************)
(* C2                                                                      *)
(***************************************************************************)
\* C2: after an Assign with an empty or skip-word label, the assignment at the
\* cursor the action started from is unassigned: label and value both absent.
C2_SkipClearsAssignment ==
    (last.op = "Assign" /\ IsSkipLabel(last.team)) =>
        results[last.idx + 1] = Unassigned

\* The same, for the line-oriented front-end alone.
C2_CliSkipClearsAssignment == fe = "cli" => C2_SkipClearsAssignment

(***************************************************************************)
(* C3                                                                      *)
(***************************************************************************)
\* C3: in a started session the cursor is an index of the rider list; MoveUp
\* at 0 and MoveDown at the last index leave it where it was, and elsewhere
\* they move it by exactly one.
C3_CursorClamped ==
    /\ Started => (total >= 1 /\ current_index \in 0..LastIndex)
    /\ last.op = "MoveUp" =>
            current_index = IF last.idx = 0 THEN 0 ELSE last.idx - 1
    /\ last.op = "MoveDown" =>
            current_index = IF last.idx = LastIndex THEN LastIndex ELSE last.idx + 1

\* A MoveDown at the last of three riders, after an assignment, left the
\* cursor there.
C3_Witness ==
    /\ last.op = "MoveDown"
    /\ total = 3
    /\ last.idx = 2
    /\ current_index = 2
    /\ Assigned(1)

(***************************************************************************)
(* C4                                                                      *)
(***************************************************************************)
\* C4: save_results has been called once when the session has ended and not
\* at all before; the session ends only by a quit (the q key, or q at the
\* end-of-list prompt); and once it has ended no action is possible.
C4_ExportExactlyOnce ==
    /\ saves = (IF pc = "ended" THEN 1 ELSE 0)
    /\ pc = "ended" => last.op \in {"Quit", "ConfirmQuit"}
    /\ last.op \in {"Quit", "ConfirmQuit"} => pc = "ended"
    /\ pc = "ended" => ~ENABLED Next

\* A session ended by Quit after an assignment and a move.
C4_Witness ==
    /\ pc = "ended"
    /\ saves = 1
    /\ last.op = "Quit"
    /\ total = 3
    /\ Assigned(1)
    /\ current_index = 2

(***************************************************************************)
(* C5                                                                      *)
(***************************************************************************)
ExportedRows == reader(files[output_file].text)

ScenarioExport == <<"C", "o", "r", "r", "i", "d", "o", "r", "e", ",", "S", "q", "u", "a", "d", "r", "a", ",", "P", "r", "e", "z", "z", "o", "\r", "\n", "T", "a", "d", "e", "j", " ", "P", "O", "G", "A", "C", "A", "R", ",", "T", "e", "a", "m", "A", ",", "5", "0", "0", "\r", "\n", "J", "o", "n", "a", "s", " ", "V", "I", "N", "G", "E", "G", "A", "A", "R", "D", ",", ",", "\r", "\n">>

\* C5: when the session has ended the written table reads back as the header
\* followed by one three-field record per rider, in rider order, record i
\* holding rider i's name, with an empty field for an absent label and for an
\* absent value; and in the scenario of the two riders with TeamA/500 at
\* index 0 and nothing at index 1, the file is exactly the three lines given.
C5_ExportOneRecordPerRider ==
    pc = "ended" =>
        LET rows == ExportedRows
        IN  /\ Len(rows) = total + 1
            /\ rows[1] = Header
            /\ \A i \in 1..total :
                /\ Len(rows[i + 1]) = 3
                /\ rows[i + 1][1] = RiderName(i)
                /\ results[i].team = None => rows[i + 1][2] = <<>>
                /\ results[i].price = None => rows[i + 1][3] = <<>>
                /\ Truthy(results[i].team) => rows[i + 1][2] = results[i].team.s
            /\ ( /\ argv = <<InputCsv>>
                 /\ results[1].team = PyStr(TeamA)
                 /\ PyText(results[1].price) = <<"5", "0", "0">>
                 /\ results[2] = Unassigned )
               => files[output_file].text = ScenarioExport

\* The scenario: TeamA/500 at index 0, a skip at index 1, then quit.
C5_Witness ==
    /\ pc = "ended"
    /\ argv = <<InputCsv>>
    /\ results[1].team = PyStr(TeamA)
    /\ PyText(results[1].price) = <<"5", "0", "0">>
    /\ results[2] = Unassigned
    /\ files[output_file].text = ScenarioExport

(***************************************************************************)
(* C6                                                                      *)
(***************************************************************************)
\* C6: no step changes or replaces a file that exists, and the file written
\* at the end is the first unused name among <base>_auction_results.csv,
\* <base>_auction_results_1.csv, <base>_auction_results_2.csv, ...
C6_NeverOverwrites ==
    [][ /\ \A p \in DOMAIN files : p \in DOMAIN files' /\ files'[p] = files[p]
        /\ (pc # "ended" /\ pc' = "ended") =>
                output_file = get_unique_output_file(files, splitext0(basename(argv[1])))
      ]_vars

(***************************************************************************)
(* Export and re-read: sessions over arbitrary rider names                 *)
(***************************************************************************)
\* The longest rider name drawn.
MaxNameLen == 3

NameChars == {"a", ",", "\"", "\n", "\r"}

\* The names a loader can produce: not empty, no blank at either end.
Names ==
    {t \in UNION {[1..k -> NameChars] : k \in 1..MaxNameLen} : strip(t) = t}

\* The names of one character, for a second rider.
ShortNames == {t \in Names : Len(t) = 1}

NameSheet(names) ==
    <<HeaderRow>> \o [i \in DOMAIN names |-> [B |-> PyStr(names[i]), C |-> None, G |-> None]]

\* A session on a worksheet of one or two riders, just after every rider was
\* assigned in turn: the line-oriented front-end waits at the end-of-list
\* prompt, the widget-based one in its main screen.
InitRT ==
    /\ fe \in {"cli", "tui"}
    /\ argv = <<SheetXlsx>>
    /\ \E names \in {<<a>> : a \in Names} \cup {<<a, b>> : a \in Names, b \in ShortNames} :
        files = [p \in {SheetXlsx} |-> SheetFile(NameSheet(names))]
    /\ riders = IF fe = "cli"
                THEN read_riders(argv[1], files[argv[1]]).riders
                ELSE tui_read_riders(argv[1], files[argv[1]]).riders
    /\ total = Len(riders)
    /\ results = [i \in 1..Len(riders) |->
                    IF fe = "cli"
                    THEN get_team_and_price(TeamA, <<"5", "0", "0">>)
                    ELSE [team |-> PyStr(TeamA), price |-> PyStr(<<"5", "0", "0">>)]]
    /\ current_index = Len(riders) - 1
    /\ pc = IF fe = "cli" THEN "confirm" ELSE "loop"
    /\ output_file = IF fe = "cli"
                     THEN OutputFile(splitext0(basename(argv[1])))
                     ELSE get_unique_output_file(files, splitext0(basename(argv[1])))
    /\ exit_status = -1
    /\ saves = 0
    /\ last = [op |-> "Assign", idx |-> Len(riders) - 1, team |-> TeamA,
               price |-> <<"5", "0", "0">>, had |-> FALSE]

NextRT ==
    \/ AnswerQuit
    \/ action_save_quit

SpecRT == InitRT /\ [][NextRT]_vars

FullyAssigned == \A i \in 1..total : Truthy(results[i].team) /\ results[i].price # None

\* The written file read by the delimited-text loader.
Reread == read_riders_from_csv(files[output_file])

(***************************************************************************)
(* C7                                                                      *)
(***************************************************************************)
\* C7 as stated: the export of a fully assigned session, read back by the
\* delimited-text loader, is the list of the riders' names.
C7_RoundTripNames ==
    (pc = "ended" /\ FullyAssigned) =>
        Reread = [i \in 1..total |-> RiderName(i)]

\* C7, amended: the export of a fully assigned session, read back by the
\* delimited-text loader, is the header's first field "Corridore" followed by
\* the riders' names in order, a carriage return inside a name read as a line
\* feed.
C7_RoundTripHeaderThenNames ==
    (pc = "ended" /\ FullyAssigned) =>
        Reread = <<Corridore>> \o [i \in 1..total |-> UniversalNewlines(RiderName(i))]

\* An ended session of two riders, the first name holding a comma, a line feed
\* and a quote.
C7_Witness ==
    /\ pc = "ended"
    /\ FullyAssigned
    /\ total = 2
    /\ RiderName(1) = <<",", "\n", "\"">>
    /\ Len(Reread) = 3

(***************************************************************************)
(* C8                                                                      *)
(***************************************************************************)
\* A fatal startup condition: no argument, a path that does not exist, an
\* extension that is not .xlsx, .xls or .csv, or a file that yields no rider.
FatalStartup ==
    \/ argv = <<>>
    \/ ~exists(files, argv[1])
    \/ ~(endswith(argv[1], DotXlsx) \/ endswith(argv[1], DotXls) \/ endswith(argv[1], DotCsv))
    \/ read_riders(argv[1], files[argv[1]]).riders = <<>>

\* C8: main under a fatal startup condition leaves the process exited, never
\* in the session; an exited process has a non-zero status, took no action,
\* did not call save_results and left only the input and the old files; and a
\* started session has at least one rider, with one assignment per rider.
C8_FatalStartupNeverStarts ==
    /\ (pc # "main" /\ last = NoAction /\ FatalStartup) => pc = "failed"
    /\ pc = "failed" =>
            /\ FatalStartup
            /\ exit_status > 0
            /\ last = NoAction
            /\ saves = 0
            /\ \A p \in DOMAIN files :
                    (argv # <<>> /\ p = argv[1]) \/ files[p] = TextFile(OldText)
    /\ Started => (total >= 1 /\ Len(riders) = total /\ Len(results) = total)

\* A run on a delimited-text file whose records all have a blank first field.
C8_Witness ==
    /\ pc = "failed"
    /\ argv = <<GeneratedCsv(0)>>
    /\ exit_status = 1
    /\ saves = 0

(***************************************************************************)
(* C9                                                                      *)
(***************************************************************************)
\* C9: the first active state (no action taken yet) has the cursor at 0 and
\* one assignment per rider, each with label and value absent.
C9_InitialSession ==
    (pc = "loop" /\ last = NoAction) =>
        /\ current_index = 0
        /\ Len(riders) >= 1
        /\ DOMAIN results = DOMAIN riders
        /\ \A i \in DOMAIN results : results[i].team = None /\ results[i].price = None

\* The first active state of a session of three riders.
C9_Witness ==
    /\ pc = "loop"
    /\ last = NoAction
    /\ Len(riders) = 3
    /\ current_index = 0

(***************************************************************************)
(* C10                                                                     *)
(***************************************************************************)
\* C10: after an Assign with a kept label at the last index the controller
\* waits at the end-of-list prompt; the answer quit ends the session with one
\* export, any other answer returns to the loop with the cursor at the last
\* index and the assignment kept.
C10_EndOfListConfirmation ==
    /\ (last.op = "Assign" /\ ~IsSkipLabel(last.team) /\ last.idx = LastIndex) =>
            pc = "confirm"
    /\ last.op = "ConfirmQuit" => (pc = "ended" /\ saves = 1)
    /\ last.op = "ConfirmContinue" =>
            (pc = "loop" /\ current_index = LastIndex /\ last.idx = LastIndex)
    /\ pc = "confirm" =>
            (~ENABLED (KeyUp \/ KeyDown \/ KeyEnter \/ KeyQuit \/ KeyOther)
             /\ ~ENABLED (action_previous_rider \/ action_next_rider \/ action_assign
                            \/ action_save_quit))

\* The same, for the line-oriented front-end alone.
C10_CliEndOfListConfirmation == fe = "cli" => C10_EndOfListConfirmation

(***************************************************************************)
(* C11                                                                     *)
(***************************************************************************)
\* C11: after an Assign with an empty or skip-word label the cursor is where
\* it was when the action started and the controller is back in the loop, not
\* at the end-of-list prompt.
C11_SkipLeavesCursor ==
    (last.op = "Assign" /\ IsSkipLabel(last.team)) =>
        /\ current_index = last.idx
        /\ pc = "loop"

\* The same, for the widget-based front-end and an empty label alone.
C11_TuiEmptyLabelLeavesCursor ==
    (fe = "tui" /\ last.op = "Assign" /\ strip(last.team) = <<>>) =>
        /\ current_index = last.idx
        /\ pc = "loop"

(***************************************************************************)
(* C12                                                                     *)
(***************************************************************************)
\* C12: a step of a started session leaves the rider list, its order and its
\* length as they are and keeps one assignment per rider; a step other than
\* Assign leaves the whole assignment table as it is, and an Assign leaves
\* every assignment but the one at the cursor it started from as it is.
C12_OneAssignmentPerAction ==
    [][ pc # "main" =>
            /\ riders' = riders
            /\ total' = total
            /\ DOMAIN results' = DOMAIN results
            /\ last'.op # "Assign" => results' = results
            /\ last'.op = "Assign" =>
                    \A i \in DOMAIN results :
                        i # current_index + 1 => results'[i] = results[i]
      ]_vars

\* An Assign at index 0 of three riders stored there and moved the cursor to
\* index 1, whose assignment is still absent.
C12_Witness ==
    /\ last.op = "Assign"
    /\ last.idx = 0
    /\ total = 3
    /\ current_index = 1
    /\ Truthy(results[1].team)
    /\ results[2] = Unassigned
    /\ results[3] = Unassigned

(***************************************************************************)
(* C13                                                                     *)
(***************************************************************************)
\* The rider list as each front-end holds it.
RiderNames == [i \in DOMAIN riders |-> RiderName(i)]

RiderDicts == [i \in DOMAIN riders |-> [name |-> RiderName(i), value |-> None]]

\* A state of the loop that both front-ends reach by the same moves: nothing
\* assigned yet.
NothingAssigned == pc = "loop" /\ \A i \in DOMAIN results : results[i] = Unassigned

\* The two front-ends move the cursor alike.
SameMoves ==
    /\ previous_index(current_index, total) = tui_previous_index(current_index, total)
    /\ next_index(current_index, total) = tui_next_index(current_index, total)

\* The two front-ends write the same file at Quit.
SameExport ==
    save_results(files, results, RiderNames, output_file)
        = tui_save_results(files, results, RiderDicts, output_file)

\* The two front-ends store the same assignment, move the cursor alike and
\* both return to the loop, for every label and price typed (a price is typed
\* only with a kept label).
SameAssign ==
    \A team_in \in TeamInputs, price_in \in PriceInputs :
        (IsSkipLabel(team_in) => price_in = <<>>) =>
            /\ cli_enter_results(team_in, price_in)
                    = handle_assignment_results(modal_confirm(team_in, price_in))
            /\ cli_enter_index = handle_assignment_index(modal_confirm(team_in, price_in))
            /\ cli_enter_pc = "loop"

\* C13: from a state both front-ends reach by the same actions, each of
\* MoveUp, MoveDown, Assign(label, price) and Quit has the same outcome in the
\* line-oriented and in the widget-based front-end: the same cursor, the same
\* assignment table and the same exported file.
C13_FrontEndsAgree == NothingAssigned => (SameMoves /\ SameExport /\ SameAssign)

\* The part of C13 that is about MoveUp, MoveDown and Quit alone.
C13_MovesAndQuitAgree == NothingAssigned => (SameMoves /\ SameExport)

(***************************************************************************)
(* C14                                                                     *)
(***************************************************************************)
\* C14: when the session has ended, the record of every rider with a label
\* holds that label and the text of the stored value (the digits of an
\* integer, 0 included; the text otherwise), and its value field is not
\* empty.
C14_ExportKeepsStoredValue ==
    pc = "ended" =>
        LET rows == ExportedRows
        IN  \A i \in 1..total :
                results[i].team # None =>
                    /\ rows[i + 1][2] = PyText(results[i].team)
                    /\ rows[i + 1][3] = PyText(results[i].price)
                    /\ rows[i + 1][3] # <<>>

\* The part of C14 that is about labels and about values other than 0 and ''.
C14_ExportKeepsLabelAndTruthyValue ==
    pc = "ended" =>
        LET rows == ExportedRows
        IN  \A i \in 1..total :
                results[i].team # None =>
                    /\ rows[i + 1][2] = PyText(results[i].team)
                    /\ Truthy(results[i].price) => rows[i + 1][3] = PyText(results[i].price)

=============================================================================
